---- MODULE Spec2Model ----
(***************************************************************************)
(* The backend of 3s-connect: the Express controllers of the post, comment *)
(* and user routes acting on the MongoDB collections (users, posts,        *)
(* comments, notifications).  Every request is a process; every `await`    *)
(* of a controller is one atomic step, so that requests interleave         *)
(* between their store reads and writes.  A handler that throws is caught  *)
(* by express-async-handler and answered by the error middleware with 500. *)
(* The documents follow the schemas of the models chapter (userSchema,     *)
(* postSchema, commentSchema, notificationsSchema).                        *)
(***************************************************************************)
EXTENDS Integers, Sequences, FiniteSets, TLC

\* ---------------------------------------------------------------- bounds
MaxReq == 2        \* requests that can be in flight at the same time
MaxPosts == 1      \* posts ever created
MaxComments == 1   \* comments ever created
MaxNotifs == 1     \* notifications ever created
\* the same three limits for the runs that serve one request at a time
SerialPosts == 2
SerialComments == 2
SerialNotifs == 2

\* ------------------------------------------------------------ identities
\* The identities Clerk can verify.  A user document is created for an
\* identity by sysncUser; its _id is written IdOf(c) (the store assigns a
\* fresh ObjectId, and users are never deleted).
\* Both identities carry a first and a last name at Clerk (userSchema requires
\* them).
ClerkIds == {"c1", "c2"}
IdOf(c) == IF c = "c1" THEN 1 ELSE 2
UserIds == {IdOf(c) : c \in ClerkIds}
\* clerkUser.emailAddresses[0].emailAddress as <<local part, domain>>
ClerkEmail(c) == IF c = "c1" THEN <<"ann", "x.org">> ELSE <<"bob", "x.org">>

Reqs == 1..MaxReq
\* req.body.content: "" stands for a missing or empty content, " " for
\* whitespace only
Contents == {"", " ", "hello"}
Bios == {"", "hi"}

VARIABLES
  users,          \* users collection: _id -> document
  posts,          \* posts collection: _id -> document
  comments,       \* comments collection: _id -> document
  notifications,  \* notifications collection, in creation order
  nextPost,       \* number of posts created so far (fresh _id source)
  nextComment,    \* number of comments created so far
  reqs,           \* the requests in flight: operation, inputs, position, locals
  resp,           \* the request answered last, with the status of its response
  toggled,        \* history (kept by SpecLike): the <<user, post>> pairs with an
                  \* odd number of like-toggle calls that ran to completion
  quota           \* the numbers of posts, comments and notifications the run
                  \* may create (fixed by the initial state)

VARIABLE
  client          \* the mobile client: comment text, query cache, mutation, alert

vars == <<users, posts, comments, notifications, nextPost, nextComment, reqs, resp,
          toggled, quota, client>>
\* the backend's part of the state
server == <<users, posts, comments, notifications, nextPost, nextComment, reqs, resp,
            toggled, quota>>

\* the identifiers a request can name: those the run can assign
PostIds == 1..quota.posts
CommentIds == 1..quota.comments

\* ------------------------------------------------------------ helpers
SeqToSet(s) == {s[i] : i \in 1..Len(s)}
Count(s, x) == Cardinality({i \in 1..Len(s) : s[i] = x})
\* an update that empties the array
PullAll(s, x) == <<>>
\* $pull: removes every occurrence of x
Pull(s, x) == SelectSeq(s, LAMBDA y : y # x)
\* an update that puts x in front
PushFront(s, x) == <<x>> \o s
\* $push: appends x, present or not
Push(s, x) == Append(s, x)
\* a content taken as it comes
NoTrim(c) == c
\* String.prototype.trim on the modelled contents
Trim(c) == IF c = " " THEN "" ELSE c
Remove(f, k) == [x \in (DOMAIN f) \ {k} |-> f[x]]

\* a lookup that ignores the clerkID and returns the first document
FindFirstUser(c) == IF DOMAIN users = {} THEN 0 ELSE CHOOSE u \in DOMAIN users : TRUE

\* User.findOne({clerkID}): the _id of the document, 0 for null
FindUserByClerk(c) == IF \E u \in DOMAIN users : users[u].clerkID = c
                      THEN CHOOSE u \in DOMAIN users : users[u].clerkID = c
                      ELSE 0

IdleReq == [op |-> "none", pc |-> "idle", auth |-> "", postId |-> 0,
            commentId |-> 0, targetUserId |-> 0, content |-> "",
            hasImage |-> FALSE, bio |-> "", user |-> 0, owner |-> 0,
            comment |-> 0, cpost |-> 0, status |-> 0, result |-> <<>>]

\* A request arrives in the lowest slot that holds no request in flight; its
\* arrival and the handler's run up to the result of its first store query
\* are one step.
InFlight(r) == reqs[r].pc # "idle"
Free(r) == ~InFlight(r) /\ \A q \in Reqs : q < r => InFlight(q)
\* the request in has arrived in slot r and waits at position p
Arrive(r, in, p) == reqs' = [reqs EXCEPT ![r] = [in EXCEPT !.pc = p]] /\ UNCHANGED resp
\* res.status(code).json(...), or the error middleware's 500 after a throw:
\* the request in of slot r is answered and leaves the slot
Respond(r, in, code) ==
  /\ reqs' = [reqs EXCEPT ![r] = IdleReq]
  /\ resp' = [in EXCEPT !.pc = "done", !.status = code]
Finish(r, code) == Respond(r, reqs[r], code)
Answer(r, in, code) == Respond(r, in, code)
Goto(r, p) == Arrive(r, reqs[r], p)
At(r, o, p) == reqs[r].op = o /\ reqs[r].pc = p
\* the requests in flight that run operation o
Running(o) == Cardinality({q \in Reqs : reqs[q].op = o})

\* no mutation is in flight
NoMutation == [kind |-> "none", username |-> "", owner |-> "", content |-> ""]
\* no request has been sent
NoCall == [method |-> "", path |-> <<>>, op |-> ""]
\* the hooks after their first render: useState(""), nothing invalidated
InitClient ==
  [commentText |-> "", stale |-> {}, alert |-> "", pending |-> NoMutation,
   status |-> "idle", sent |-> NoCall]

Init ==
  /\ client = InitClient
  /\ users = <<>>
  /\ posts = <<>>
  /\ comments = <<>>
  /\ notifications = <<>>
  /\ nextPost = 0
  /\ nextComment = 0
  /\ reqs = [r \in Reqs |-> IdleReq]
  /\ resp = IdleReq
  /\ toggled = {}
  /\ quota = [posts |-> MaxPosts, comments |-> MaxComments, notifs |-> MaxNotifs]

\* the same empty store, for the runs that serve one request at a time
InitSerial ==
  /\ client = InitClient
  /\ users = <<>>
  /\ posts = <<>>
  /\ comments = <<>>
  /\ notifications = <<>>
  /\ nextPost = 0
  /\ nextComment = 0
  /\ reqs = [r \in Reqs |-> IdleReq]
  /\ resp = IdleReq
  /\ toggled = {}
  /\ quota = [posts |-> SerialPosts, comments |-> SerialComments, notifs |-> SerialNotifs]

\* ------------------------------------------------------------ sysncUser
\* a handler without the check for an existing user
SyncNoFindOne(r) ==
  /\ Free(r)
  /\ \E a \in ClerkIds : Arrive(r, [IdleReq EXCEPT !.op = "sync", !.auth = a], "create")
  /\ UNCHANGED <<users, posts, comments, notifications, nextPost, nextComment, toggled, quota, client>>

\* const existingUser = await userModel.findOne({clerkID:userId})
\* if(existingUser) return res.status(200)
SyncFindOne(r) ==
  /\ Free(r)
  /\ \E a \in ClerkIds :
       LET in == [IdleReq EXCEPT !.op = "sync", !.auth = a]
       IN  IF FindUserByClerk(a) # 0
             THEN Answer(r, [in EXCEPT !.user = FindUserByClerk(a)], 200)
             ELSE Arrive(r, in, "create")
  /\ UNCHANGED <<users, posts, comments, notifications, nextPost, nextComment, toggled, quota, client>>

\* the unique indexes of userSchema: clerkID, email, username
UniqueOk(c) ==
  \A u \in DOMAIN users :
    /\ users[u].clerkID # c
    /\ users[u].email # ClerkEmail(c)
    /\ users[u].username # ClerkEmail(c)[1]

NewUser(c) == [clerkID |-> c, email |-> ClerkEmail(c), username |-> ClerkEmail(c)[1],
               bio |-> "", followers |-> <<>>, following |-> <<>>]

\* clerkClient.users.getUser(userId), then userModel.create(userData);
\* a duplicate key makes create throw
SyncCreate(r) ==
  /\ At(r, "sync", "create")
  /\ IF UniqueOk(reqs[r].auth)
       THEN /\ users' = users @@ (IdOf(reqs[r].auth) :> NewUser(reqs[r].auth))
            /\ Respond(r, [reqs[r] EXCEPT !.user = IdOf(reqs[r].auth)], 200)
       ELSE /\ Finish(r, 500)
            /\ UNCHANGED users
  /\ UNCHANGED <<posts, comments, notifications, nextPost, nextComment, toggled, quota, client>>

\* ------------------------------------------------------------ createPost
\* if (!content && !imageFile) 400; user = await User.findOne; if (!user) 404
CreatePostFindUser(r) ==
  /\ Free(r)
  /\ nextPost + Running("createPost") < quota.posts
  /\ \E a \in ClerkIds, c \in {"", "hello"}, img \in BOOLEAN :
       LET in == [IdleReq EXCEPT !.op = "createPost", !.auth = a, !.content = c, !.hasImage = img]
       IN  IF c = "" /\ ~img
             THEN Answer(r, in, 400)
             ELSE IF FindUserByClerk(a) = 0
               THEN Answer(r, in, 404)
               ELSE Arrive(r, [in EXCEPT !.user = FindUserByClerk(a)],
                           IF img THEN "upload" ELSE "create")
  /\ UNCHANGED <<users, posts, comments, notifications, nextPost, nextComment, toggled, quota, client>>

\* a handler that goes on to create the post when the upload has failed
CreatePostUploadIgnored(r) ==
  /\ At(r, "createPost", "upload")
  /\ \/ Goto(r, "create")
     \/ Arrive(r, [reqs[r] EXCEPT !.hasImage = FALSE, !.status = 400], "create")
  /\ UNCHANGED <<users, posts, comments, notifications, nextPost, nextComment, toggled, quota, client>>

\* await cloudinary.uploader.upload(...): the URL, or the catch block's 400
CreatePostUpload(r) ==
  /\ At(r, "createPost", "upload")
  /\ \/ Goto(r, "create")
     \/ Finish(r, 400)
  /\ UNCHANGED <<users, posts, comments, notifications, nextPost, nextComment, toggled, quota, client>>

NewPost(u, c, img) == [user |-> u, content |-> c, image |-> img,
                       likes |-> <<>>, comments |-> <<>>]

\* await Post.create({content, image, user: user._id}); 201
CreatePostCreate(r) ==
  /\ At(r, "createPost", "create")
  /\ nextPost' = nextPost + 1
  /\ posts' = posts @@ (nextPost' :> NewPost(reqs[r].user, reqs[r].content, reqs[r].hasImage))
  /\ Respond(r, [reqs[r] EXCEPT !.postId = nextPost'], 201)
  /\ UNCHANGED <<users, comments, notifications, nextComment, toggled, quota, client>>

\* ------------------------------------------------------------ likeAPost
\* const { userId } = getAuth();  -- called without the request.  Reading the
\* auth state of an undefined request throws; a getAuth that returned
\* anything would let the handler go on to its next lines:
\* const user = User.findOne(...)   (not awaited: a Query object, truthy)
\* const post = await Post.findById(postId);
LikeGetAuth(r) ==
  /\ Free(r)
  /\ \E a \in ClerkIds, p \in PostIds :
       LET in == [IdleReq EXCEPT !.op = "like", !.auth = a, !.postId = p]
       IN  \/ Answer(r, in, 500)
           \/ Arrive(r, in, "check")
  /\ UNCHANGED <<users, posts, comments, notifications, nextPost, nextComment, quota, client>>

\* a handler that passes its checks and pushes without testing membership
LikeCheckPushes(r) ==
  /\ At(r, "like", "check")
  /\ LET u == FindUserByClerk(reqs[r].auth)
         p == reqs[r].postId
     IN  IF u # 0 /\ p \in DOMAIN posts
           THEN /\ posts' = [posts EXCEPT ![p].likes = Push(@, u)]
                /\ Finish(r, 200)
           ELSE /\ Finish(r, 404)
                /\ UNCHANGED posts
  /\ UNCHANGED <<users, comments, notifications, nextPost, nextComment, quota, client>>

\* if (!user || post) return res.statusZ(404)...   statusZ is not a function
\* const isLiked = post.likes.includes(user._id);  post is null here
LikeCheck(r) ==
  /\ At(r, "like", "check")
  /\ IF reqs[r].postId \in DOMAIN posts
       THEN Finish(r, 500)     \* TypeError: res.statusZ is not a function
       ELSE Finish(r, 500)     \* TypeError: cannot read properties of null
  /\ UNCHANGED <<users, posts, comments, notifications, nextPost, nextComment, quota, client>>

\* this step sends the response of a like-toggle call (resp' is the response)
LikeResponds ==
  /\ resp'.op = "like"
  /\ reqs' = reqs \/ \E r \in Reqs : reqs[r].op = "like" /\ reqs'[r].pc = "idle"

\* The history of the like-toggle calls: a call of an existing actor on an
\* existing post that has run to its end is counted.
LikeCompleted ==
  LET u == FindUserByClerk(resp'.auth)
      k == <<u, resp'.postId>>
  IN  IF LikeResponds /\ u # 0 /\ resp'.postId \in DOMAIN posts
        THEN toggled' = (toggled \ {k}) \cup ({k} \ toggled)
        ELSE UNCHANGED toggled

\* ------------------------------------------------------------ deletePost
\* const user = await User.findOne({ clerkID: userId });
DeletePostFindUser(r) ==
  /\ Free(r)
  /\ \E a \in ClerkIds, p \in PostIds :
       Arrive(r, [IdleReq EXCEPT !.op = "deletePost", !.auth = a, !.postId = p,
                                 !.user = FindUserByClerk(a)], "findPost")
  /\ UNCHANGED <<users, posts, comments, notifications, nextPost, nextComment, toggled, quota, client>>

\* const post = await Post.findById(postId);
\* if (!user || !post) 400;  if (post.user !== user._id) 403
DeletePostFindPost(r) ==
  /\ At(r, "deletePost", "findPost")
  /\ IF reqs[r].user = 0 \/ reqs[r].postId \notin DOMAIN posts
       THEN Finish(r, 400)
       ELSE IF posts[reqs[r].postId].user # reqs[r].user
         THEN Finish(r, 403)
         ELSE Arrive(r, [reqs[r] EXCEPT !.owner = posts[reqs[r].postId].user], "deleteMany")
  /\ UNCHANGED <<users, posts, comments, notifications, nextPost, nextComment, toggled, quota, client>>

\* await Comment.deleteMany(postId);  -- the filter is the id string, not an
\* object: the query rejects with ObjectParameterError, so the handler throws
\* before Post.findByIdAndDelete(postId)
DeletePostDeleteMany(r) ==
  /\ At(r, "deletePost", "deleteMany")
  /\ Finish(r, 500)
  /\ UNCHANGED <<users, posts, comments, notifications, nextPost, nextComment, toggled, quota, client>>

\* ------------------------------------------------------------ createComment
\* if (!content?.trim()) 400;  const user = await User.findOne({clerkID: userId})
CreateCommentFindUser(r) ==
  /\ Free(r)
  /\ nextComment + Running("createComment") < quota.comments
  /\ Len(notifications) + Running("createComment") < quota.notifs
  /\ \E a \in ClerkIds, p \in PostIds, c \in Contents :
       LET in == [IdleReq EXCEPT !.op = "createComment", !.auth = a, !.postId = p, !.content = c]
       IN  IF Trim(c) = ""
             THEN Answer(r, in, 400)
             ELSE Arrive(r, [in EXCEPT !.user = FindUserByClerk(a)], "findPost")
  /\ UNCHANGED <<users, posts, comments, notifications, nextPost, nextComment, toggled, quota, client>>

\* const post = await Posts.findById(postId);  if (!user || !post) 404
CreateCommentFindPost(r) ==
  /\ At(r, "createComment", "findPost")
  /\ IF reqs[r].user = 0 \/ reqs[r].postId \notin DOMAIN posts
       THEN Finish(r, 404)
       ELSE Arrive(r, [reqs[r] EXCEPT !.owner = posts[reqs[r].postId].user], "create")
  /\ UNCHANGED <<users, posts, comments, notifications, nextPost, nextComment, toggled, quota, client>>

NewComment(u, p, c) == [user |-> u, post |-> p, content |-> c]

\* const comment = await Comments.create({user, content: content.trim(), post})
CreateCommentCreate(r) ==
  /\ At(r, "createComment", "create")
  /\ nextComment' = nextComment + 1
  /\ comments' = comments @@
       (nextComment' :> NewComment(reqs[r].user, reqs[r].postId, Trim(reqs[r].content)))
  /\ Arrive(r, [reqs[r] EXCEPT !.comment = nextComment'], "push")
  /\ UNCHANGED <<users, posts, notifications, nextPost, toggled, quota, client>>

\* a notification sent whoever the owner is
NotifiesAlways(owner, actor) == TRUE

\* the owner check of the notification: !post.user.equals(user._id)
NotifiesOwner(owner, actor) == owner # actor

\* await Posts.findByIdAndUpdate(postId, {$push: {comments: comment._id}})
\* (no document is updated if the post is gone); then the owner check
CreateCommentPush(r) ==
  /\ At(r, "createComment", "push")
  /\ IF reqs[r].postId \in DOMAIN posts
       THEN posts' = [posts EXCEPT ![reqs[r].postId].comments = Push(@, reqs[r].comment)]
       ELSE UNCHANGED posts
  /\ IF NotifiesOwner(reqs[r].owner, reqs[r].user)
       THEN Goto(r, "notify")
       ELSE Finish(r, 201)
  /\ UNCHANGED <<users, comments, notifications, nextPost, nextComment, toggled, quota, client>>

\* a handler that addresses the notification to the commenter
CreateCommentNotifyActor(r) ==
  /\ At(r, "createComment", "notify")
  /\ notifications' = Append(notifications,
       [from |-> reqs[r].user, to |-> reqs[r].user, types |-> "comment",
        post |-> reqs[r].postId, comment |-> reqs[r].comment])
  /\ Finish(r, 201)
  /\ UNCHANGED <<users, posts, comments, nextPost, nextComment, toggled, quota, client>>

\* await notification.create({from, to, post, comment, types: "comment"}); 201
CreateCommentNotify(r) ==
  /\ At(r, "createComment", "notify")
  /\ notifications' = Append(notifications,
       [from |-> reqs[r].user, to |-> reqs[r].owner, types |-> "comment",
        post |-> reqs[r].postId, comment |-> reqs[r].comment])
  /\ Finish(r, 201)
  /\ UNCHANGED <<users, posts, comments, nextPost, nextComment, toggled, quota, client>>

\* ------------------------------------------------------------ deleteComment
\* const user = await User.findOne({clerkID:userId});
DeleteCommentFindUser(r) ==
  /\ Free(r)
  /\ \E a \in ClerkIds, c \in CommentIds :
       Arrive(r, [IdleReq EXCEPT !.op = "deleteComment", !.auth = a, !.commentId = c,
                                 !.user = FindUserByClerk(a)], "findComment")
  /\ UNCHANGED <<users, posts, comments, notifications, nextPost, nextComment, toggled, quota, client>>

\* a handler without the author check
DeleteCommentAnyAuthor(r) ==
  /\ At(r, "deleteComment", "findComment")
  /\ IF reqs[r].user = 0 \/ reqs[r].commentId \notin DOMAIN comments
       THEN Finish(r, 404)
       ELSE Arrive(r, [reqs[r] EXCEPT !.comment = reqs[r].commentId,
                                      !.cpost = comments[reqs[r].commentId].post], "pull")
  /\ UNCHANGED <<users, posts, comments, notifications, nextPost, nextComment, toggled, quota, client>>

\* const comment = await Comments.findById(commentId);
\* if(!user || !comment) 404;  if(comment.user !== user._id) 403
DeleteCommentFindComment(r) ==
  /\ At(r, "deleteComment", "findComment")
  /\ IF reqs[r].user = 0 \/ reqs[r].commentId \notin DOMAIN comments
       THEN Finish(r, 404)
       ELSE IF comments[reqs[r].commentId].user # reqs[r].user
         THEN Finish(r, 403)
         ELSE Arrive(r, [reqs[r] EXCEPT !.comment = reqs[r].commentId,
                                        !.cpost = comments[reqs[r].commentId].post], "pull")
  /\ UNCHANGED <<users, posts, comments, notifications, nextPost, nextComment, toggled, quota, client>>

\* await Posts.findByIdAndUpdate(comment.post, {$pull: {comments: comment._id}})
DeleteCommentPull(r) ==
  /\ At(r, "deleteComment", "pull")
  /\ IF reqs[r].cpost \in DOMAIN posts
       THEN posts' = [posts EXCEPT ![reqs[r].cpost].comments = Pull(@, reqs[r].comment)]
       ELSE UNCHANGED posts
  /\ Goto(r, "delete")
  /\ UNCHANGED <<users, comments, notifications, nextPost, nextComment, toggled, quota, client>>

\* await Comments.findOneAndDelete(comment._id);  200
\* (an ObjectId given as the filter is read as {_id: comment._id})
DeleteCommentDelete(r) ==
  /\ At(r, "deleteComment", "delete")
  /\ comments' = Remove(comments, reqs[r].comment)
  /\ Finish(r, 200)
  /\ UNCHANGED <<users, posts, notifications, nextPost, nextComment, toggled, quota, client>>

\* ------------------------------------------------------------ followUser
\* a handler that reaches its first write and stops after it
FollowUserHalf(r) ==
  /\ Free(r)
  /\ \E a \in ClerkIds, t \in UserIds :
       LET u == FindUserByClerk(a)
           in == [IdleReq EXCEPT !.op = "follow", !.auth = a, !.targetUserId = t, !.user = u]
       IN  IF u # 0 /\ t \in DOMAIN users /\ u # t
             THEN /\ users' = [users EXCEPT ![u].following = Push(@, t)]
                  /\ Answer(r, in, 500)
             ELSE /\ Answer(r, in, 404)
                  /\ UNCHANGED users
  /\ UNCHANGED <<posts, comments, notifications, nextPost, nextComment, toggled, quota, client>>

\* const {targetUserId} = req.params();  -- req.params is an object, not a
\* function: the call throws TypeError before any query, and the error
\* middleware answers 500
FollowUser(r) ==
  /\ Free(r)
  /\ \E a \in ClerkIds, t \in UserIds :
       Answer(r, [IdleReq EXCEPT !.op = "follow", !.auth = a, !.targetUserId = t], 500)
  /\ UNCHANGED <<users, posts, comments, notifications, nextPost, nextComment, toggled, quota, client>>

\* ------------------------------------------------------------ updateUserProfile
\* userModel.findOneAndUpdate({clerkID: userId}, {firstName, lastName, bio,
\* location}, {new: true});  if (!user) 404.  The four profile fields are
\* written alike; bio stands for them.
UpdateUserProfile(r) ==
  /\ Free(r)
  /\ \E a \in ClerkIds, b \in Bios :
       LET u == FindUserByClerk(a)
           in == [IdleReq EXCEPT !.op = "updateProfile", !.auth = a, !.bio = b, !.user = u]
       IN  IF u = 0
             THEN Answer(r, in, 404) /\ UNCHANGED users
             ELSE Answer(r, in, 200) /\ users' = [users EXCEPT ![u].bio = b]
  /\ UNCHANGED <<posts, comments, notifications, nextPost, nextComment, toggled, quota, client>>

\* ------------------------------------------------------------ getComments
\* the orders in which a query may return the documents S when its sort key
\* does not tell them apart
Orders(S) == {s \in [1..Cardinality(S) -> S] : SeqToSet(s) = S}

\* Comments.find({post: postId}).sort({createdAta: -1}).populate("User", ...):
\* no Comment has a field createdAta, so the sort key is the same (missing)
\* for all of them and the store returns them in an order of its choosing;
\* populate of a path that the schema does not have throws or is ignored,
\* depending on the schema's strictPopulate. The route is public.
GetCommentsFind(r) ==
  /\ Free(r)
  /\ \E p \in PostIds :
       LET in == [IdleReq EXCEPT !.op = "getComments", !.postId = p]
           found == {k \in DOMAIN comments : comments[k].post = p}
       IN  \/ Answer(r, in, 500)
           \/ \E s \in Orders(found) : Answer(r, [in EXCEPT !.result = s], 200)
  /\ UNCHANGED <<users, posts, comments, notifications, nextPost, nextComment,
                 toggled, quota, client>>

\* ------------------------------------------------------------ routes
\* a path is the sequence of its segments; a segment that starts with a
\* colon in a route is a parameter and matches any segment
Params == {":postId", ":username", ":targetUserId", ":notificationId", ":commentId"}
Route(m, p, c) == [method |-> m, path |-> p, chain |-> c]

postRoute ==
  << Route("GET", <<>>, <<"getPosts">>),
     Route("GET", <<":postId">>, <<"getSinglePost">>),
     Route("GET", <<"user", ":username">>, <<"getUserbasedPosts">>),
     Route("POST", <<>>, <<"protectRoute", "upload", "createPost">>),
     Route("POST", <<":postId", "like">>, <<"protectRoute", "likeAPost">>),
     Route("DELETE", <<":postId">>, <<"protectRoute", "deletePost">>) >>

userRoute ==
  << Route("GET", <<"profile", ":username">>, <<"getUserProgile">>),
     Route("PUT", <<"profile">>, <<"protectRoute", "updateUserProfile">>),
     Route("POST", <<"sync">>, <<"protectRoute", "sysncUser">>),
     Route("GET", <<"me">>, <<"protectRoute", "getCurrentUser">>),
     Route("POST", <<"follow", ":targetUserId">>, <<"protectRoute", "followUser">>) >>

commentRoute ==
  << Route("GET", <<"post", ":postId">>, <<"getComments">>),
     Route("POST", <<"post", ":postId">>, <<"protectRoute", "createComment">>),
     Route("DELETE", <<":commentId">>, <<"protectRoute", "deleteComment">>) >>

notificationRoute ==
  << Route("GET", <<>>, <<"protectRoute", "getNotification">>),
     Route("DELETE", <<":notificationId">>, <<"protectRoute", "deleteNotification">>) >>

\* app.use("/api/<prefix>", router), in the order of registration
Mounts ==
  << [prefix |-> "users", router |-> userRoute],
     [prefix |-> "post", router |-> postRoute],
     [prefix |-> "comment", router |-> commentRoute],
     [prefix |-> "notification", router |-> notificationRoute] >>

Matches(pattern, path) ==
  /\ Len(pattern) = Len(path)
  /\ \A i \in DOMAIN pattern : pattern[i] \in Params \/ pattern[i] = path[i]

\* the handlers that Express runs for a request, in order: those of the first
\* route that matches under the mounted prefix; none if the path is unrouted
Dispatch(method, path) ==
  LET ms == SelectSeq(Mounts, LAMBDA m : path # <<>> /\ m.prefix = Head(path))
  IN  IF ms = <<>> THEN <<>>
      ELSE LET rs == SelectSeq(ms[1].router,
                       LAMBDA rt : rt.method = method /\ Matches(rt.path, Tail(path)))
           IN  IF rs = <<>> THEN <<>> ELSE rs[1].chain

\* a request path for a route, with a value in place of each parameter
Instance(pattern) ==
  [i \in DOMAIN pattern |-> IF pattern[i] \in Params THEN "x" ELSE pattern[i]]
RouteRequests ==
  UNION {{[method |-> rt.method, path |-> <<m.prefix>> \o Instance(rt.path)] :
            rt \in SeqToSet(m.router)} : m \in SeqToSet(Mounts)}

\* a middleware that lets every request pass
ProtectRouteOpen(isAuthenticated) == 0
\* protectRoute: 401 unless req.auth.isAuthenticated; 0 stands for next()
ProtectRoute(isAuthenticated) == IF ~isAuthenticated THEN 401 ELSE 0

\* A request that carries no verified identity: it runs the handlers of its
\* route up to the first one that answers. The controllers of the public
\* routes only read the store; their answers are not told apart here.
Unauthenticated(r) ==
  /\ Free(r)
  /\ \E q \in RouteRequests :
       LET chain == Dispatch(q.method, q.path)
           in == [IdleReq EXCEPT !.op = chain[Len(chain)]]
       IN  IF chain[1] = "protectRoute" /\ ProtectRoute(FALSE) # 0
             THEN Answer(r, [in EXCEPT !.result = <<"protectRoute">>], ProtectRoute(FALSE))
             ELSE Answer(r, [in EXCEPT !.result = chain], 200)
  /\ UNCHANGED <<users, posts, comments, notifications, nextPost, nextComment,
                 toggled, quota, client>>

\* ------------------------------------------------------------ mobile client
\* the users whose posts the screens show
Usernames == {"u1", "u2"}
\* the query keys of the hooks
QueryKeys ==
  {<<"posts">>, <<"notifications">>, <<"authUser">>}
    \cup {<<"userPosts", u>> : u \in Usernames}
\* queryClient.invalidateQueries({queryKey}): every query whose key starts
\* with queryKey becomes stale
InvalidateQueries(queryKey) ==
  {k \in QueryKeys : Len(queryKey) <= Len(k) /\ SubSeq(k, 1, Len(queryKey)) = queryKey}

\* a call of the API client: method, path below the base URL, and the
\* backend operation it is meant for
Call(m, p, o) == [method |-> m, path |-> Instance(p), op |-> o]
userApi ==
  [syncUser |-> Call("POST", <<"users", "sync">>, "sysncUser"),
   getCurrentUser |-> Call("GET", <<"users", "me">>, "getCurrentUser"),
   updateProfile |-> Call("PUT", <<"users", "profile">>, "updateUserProfile")]
postApi ==
  [createPost |-> Call("POST", <<"post">>, "createPost"),
   getPosts |-> Call("GET", <<"post">>, "getPosts"),
   getUserPost |-> Call("GET", <<"posts", "user", ":username">>, "getUserbasedPosts"),
   likePost |-> Call("POST", <<"post", ":postId", "like">>, "likeAPost"),
   deletePost |-> Call("DELETE", <<"post", ":postId">>, "deletePost")]
commentApi ==
  [createComment |-> Call("POST", <<"comment", "post", ":postId">>, "createComment")]

\* mutation.mutate(...): the mutation m starts and its request is sent
Mutate(m, call, shown) ==
  /\ client.pending = NoMutation
  /\ client' = [client EXCEPT !.pending = m, !.status = "pending",
                               !.sent = call, !.alert = shown]
  /\ UNCHANGED server

\* setCommentText(t)
SetCommentText ==
  /\ \E t \in Contents : client' = [client EXCEPT !.commentText = t, !.alert = ""]
  /\ UNCHANGED server

\* useComment().createComment(postId), for a post of owner: the alert for an
\* empty text is followed by the mutate call, not by a return
CreateComment ==
  \E owner \in Usernames :
    Mutate([NoMutation EXCEPT !.kind = "comment", !.owner = owner,
                              !.content = client.commentText],
           commentApi.createComment,
           IF Trim(client.commentText) = "" THEN "Empty Comment" ELSE "")

\* the posts that a usePosts(username) instance shows: all on the home feed
\* (no username), those of username on a profile
Shown(username) == IF username = "" THEN Usernames ELSE {username}

\* usePosts(username).toggleLike(postId)
ToggleLike ==
  \E username \in Usernames \cup {""} : \E owner \in Shown(username) :
    Mutate([NoMutation EXCEPT !.kind = "like", !.username = username, !.owner = owner],
           postApi.likePost, "")

\* usePosts(username).deletePost(postId)
DeletePost ==
  \E username \in Usernames \cup {""} : \E owner \in Shown(username) :
    Mutate([NoMutation EXCEPT !.kind = "deletePost", !.username = username,
                              !.owner = owner],
           postApi.deletePost, "")

\* useNotification().deleteNotification(notificationId); the object
\* notifiacationApi that would send it is not one of utils/api.ts
DeleteNotification ==
  Mutate([NoMutation EXCEPT !.kind = "deleteNotification"], NoCall, "")

\* useProfile().saveProfile()
SaveProfile ==
  Mutate([NoMutation EXCEPT !.kind = "updateProfile"], userApi.updateProfile, "")

\* onSuccess of the mutation m: the keys it invalidates
OnSuccessKeys(m) ==
  CASE m.kind \in {"like", "deletePost"} ->
         InvalidateQueries(<<"posts">>)
           \cup (IF m.username # "" THEN InvalidateQueries(<<"userPosts", m.username>>)
                                    ELSE {})
    [] m.kind = "comment" -> InvalidateQueries(<<"posts">>)
    [] m.kind = "deleteNotification" -> InvalidateQueries(<<"notifications">>)
    [] m.kind = "updateProfile" -> InvalidateQueries(<<"authUser">>)
\* the title of the alert that onSuccess shows, if any
OnSuccessAlert(m) ==
  CASE m.kind = "deleteNotification" -> "Notification"
    [] m.kind = "updateProfile" -> "Success"
    [] OTHER -> ""
\* the title of the alert that onError shows; the like, delete-post and
\* delete-notification mutations have no onError
OnErrorAlert(m) ==
  IF m.kind \in {"comment", "updateProfile"} THEN "Error" ELSE ""

\* the pending mutation's request is answered with success
MutationSucceeds ==
  /\ client.pending # NoMutation
  /\ client' = [client EXCEPT
       !.pending = NoMutation, !.status = "success",
       !.stale = @ \cup OnSuccessKeys(client.pending),
       !.alert = OnSuccessAlert(client.pending),
       !.commentText = IF client.pending.kind = "comment" THEN "" ELSE @]
  /\ UNCHANGED server

\* the pending mutation's request fails or is answered with an error status
MutationFails ==
  /\ client.pending # NoMutation
  /\ client' = [client EXCEPT !.pending = NoMutation, !.status = "error",
                               !.alert = OnErrorAlert(client.pending)]
  /\ UNCHANGED server

\* queryFn of the query with key k
QueryFn(k) ==
  CASE k = <<"posts">> -> postApi.getPosts
    [] k = <<"authUser">> -> userApi.getCurrentUser
    [] OTHER -> postApi.getUserPost

\* a stale query that a screen shows is fetched again
Refetch ==
  /\ \E k \in client.stale \ {<<"notifications">>} :
       client' = [client EXCEPT !.stale = @ \ {k}, !.sent = QueryFn(k), !.alert = ""]
  /\ UNCHANGED server

\* a profile screen opens: usePosts(username) fetches its query
OpenProfile ==
  /\ client' = [client EXCEPT !.sent = postApi.getUserPost, !.alert = ""]
  /\ UNCHANGED server

\* ------------------------------------------------------------ specifications
NextClient ==
  \/ SetCommentText \/ CreateComment \/ ToggleLike \/ DeletePost
  \/ DeleteNotification \/ SaveProfile \/ MutationSucceeds \/ MutationFails
  \/ Refetch \/ OpenProfile
SpecClient == Init /\ [][NextClient]_vars

SyncStep(r) == SyncFindOne(r) \/ SyncCreate(r)
CreatePostStep(r) == CreatePostFindUser(r) \/ CreatePostUpload(r) \/ CreatePostCreate(r)
LikeStep(r) == (LikeGetAuth(r) \/ LikeCheck(r)) /\ UNCHANGED toggled
\* the same steps with the history of the completed calls kept
LikeStepCounted(r) == (LikeGetAuth(r) \/ LikeCheck(r)) /\ LikeCompleted
DeletePostStep(r) == DeletePostFindUser(r) \/ DeletePostFindPost(r) \/ DeletePostDeleteMany(r)
CreateCommentStep(r) ==
  \/ CreateCommentFindUser(r) \/ CreateCommentFindPost(r) \/ CreateCommentCreate(r)
  \/ CreateCommentPush(r) \/ CreateCommentNotify(r)
DeleteCommentStep(r) ==
  \/ DeleteCommentFindUser(r) \/ DeleteCommentFindComment(r)
  \/ DeleteCommentPull(r) \/ DeleteCommentDelete(r)

\* every operation of the backend
Next ==
  \E r \in Reqs :
    \/ SyncStep(r) \/ CreatePostStep(r) \/ LikeStep(r) \/ DeletePostStep(r)
    \/ CreateCommentStep(r) \/ DeleteCommentStep(r)
    \/ FollowUser(r) \/ UpdateUserProfile(r)

Spec == Init /\ [][Next]_vars

\* the posts and their likes
NextLike ==
  \E r \in Reqs : SyncStep(r) \/ CreatePostStep(r) \/ LikeStepCounted(r)
SpecLike == Init /\ [][NextLike]_vars

\* the follow edges
NextFollow ==
  \E r \in Reqs : SyncStep(r) \/ FollowUser(r) \/ UpdateUserProfile(r)
SpecFollow == Init /\ [][NextFollow]_vars

\* requests with and without a verified identity
NextAuth ==
  \E r \in Reqs : SyncStep(r) \/ FollowUser(r) \/ UpdateUserProfile(r)
                    \/ Unauthenticated(r)
SpecAuth == Init /\ [][NextAuth]_vars

\* the three operations that notify
NextNotify ==
  \E r \in Reqs : SyncStep(r) \/ CreatePostStep(r) \/ CreateCommentStep(r)
                    \/ LikeStep(r) \/ FollowUser(r)
SpecNotify == Init /\ [][NextNotify]_vars

\* One request at a time: a request is admitted, and runs, only while no other
\* request is in flight.  The state a call starts in and the state it ends in
\* are then the two ends of its own steps.
Alone(r) == \A q \in Reqs \ {r} : ~InFlight(q)
NextSerial ==
  \E r \in Reqs :
    /\ Alone(r)
    /\ \/ SyncStep(r) \/ CreatePostStep(r) \/ DeletePostStep(r)
       \/ CreateCommentStep(r) \/ DeleteCommentStep(r)
SpecSerial == InitSerial /\ [][NextSerial]_vars

\* Comments are written and listed, one request at a time.
NextComments ==
  \E r \in Reqs :
    /\ Alone(r)
    /\ \/ SyncStep(r) \/ CreatePostStep(r) \/ CreateCommentStep(r)
       \/ GetCommentsFind(r)
SpecComments == InitSerial /\ [][NextComments]_vars

\* ------------------------------------------------------------ steps
\* this step sends the response of a follow-toggle call
FollowResponds == resp'.op = "follow" /\ reqs' = reqs

\* this step sends the response of a call of operation o
Responds(o) ==
  /\ resp'.op = o
  /\ reqs' = reqs \/ \E r \in Reqs : reqs[r].op = o /\ reqs'[r].pc = "idle"

\* the request of slot r runs operation o and is in flight before this step
Serving(r, o) == reqs[r].op = o /\ InFlight(r)

\* this step leaves post q / comment k as it is
SamePost(q) == q \in DOMAIN posts' /\ posts'[q] = posts[q]
SameComment(k) == k \in DOMAIN comments' /\ comments'[k] = comments[k]
\* this step changes nothing of post q but its comments
SamePostButComments(q) ==
  /\ q \in DOMAIN posts'
  /\ [posts'[q] EXCEPT !.comments = <<>>] = [posts[q] EXCEPT !.comments = <<>>]

\* getComments: Comments.find({post: postId}) on the store after the step
GetComments(p) == {k \in DOMAIN comments' : comments'[k].post = p}

\* this step is taken by a request that carries the verified identity c
ByActor(c) ==
  \/ \E r \in Reqs : reqs'[r] # reqs[r] /\ c \in {reqs[r].auth, reqs'[r].auth}
  \/ reqs' = reqs /\ resp'.auth = c

\* the user records with clerkID c after the step
RecordsOf(c) == {u \in DOMAIN users' : users'[u].clerkID = c}

LikeNotification(a, o, p) == [from |-> a, to |-> o, types |-> "like", post |-> p, comment |-> 0]
FollowNotification(a, t) == [from |-> a, to |-> t, types |-> "follow", post |-> 0, comment |-> 0]
Created(n) == notifications' = Append(notifications, n)

\* ------------------------------------------------------------ claims

C2_LikesAreOddTogglers ==
  (\A r \in Reqs : reqs[r].op # "like") =>
    \A p \in DOMAIN posts :
      SeqToSet(posts[p].likes) = {u \in UserIds : <<u, p>> \in toggled}

\* C3: a like-toggle answers 404 exactly when the actor or the post does not
\* resolve, and then changes no likes and no notification; when both resolve
\* it answers 200 and has toggled the actor's membership.
C3_LikeNotFoundOrToggled ==
  [][LikeResponds =>
       LET a == FindUserByClerk(resp'.auth)
           p == resp'.postId
           found == a # 0 /\ p \in DOMAIN posts
       IN  /\ resp'.status = 404 <=> ~found
           /\ ~found => posts' = posts /\ notifications' = notifications
           /\ found => /\ resp'.status = 200
                       /\ p \in DOMAIN posts'
                       /\ (a \in SeqToSet(posts'[p].likes)) <=> (a \notin SeqToSet(posts[p].likes))
    ]_vars

C5_LikeNotifiesOnLike ==
  [][LikeResponds =>
       LET a == FindUserByClerk(resp'.auth)
           p == resp'.postId
           like == a # 0 /\ p \in DOMAIN posts /\ a \notin SeqToSet(posts[p].likes)
       IN  IF like /\ posts[p].user # a
             THEN Created(LikeNotification(a, posts[p].user, p))
             ELSE notifications' = notifications
    ]_vars

\* C6: no notification has from equal to to.
C6_NoSelfNotification ==
  \A i \in 1..Len(notifications) : notifications[i].from # notifications[i].to

\* a comment of the post's owner on the own post has been created
C6_Witness ==
  /\ resp.op = "createComment" /\ resp.status = 201
  /\ resp.user = resp.owner
  /\ resp.comment \in DOMAIN comments

\* C7: a follow-toggle of A on T, both existing and distinct, that starts with
\* A not following T ends with A in T.followers and T in A.following; one
\* that starts with A following T ends with both absent.
C7_FollowToggles ==
  [][FollowResponds =>
       LET a == FindUserByClerk(resp'.auth)
           t == resp'.targetUserId
       IN  (a # 0 /\ t \in DOMAIN users /\ a # t) =>
             IF t \notin SeqToSet(users[a].following)
               THEN /\ a \in SeqToSet(users'[t].followers)
                    /\ t \in SeqToSet(users'[a].following)
               ELSE /\ a \notin SeqToSet(users'[t].followers)
                    /\ t \notin SeqToSet(users'[a].following)
    ]_vars

C9_NoSelfEdge ==
  \A u \in DOMAIN users :
    u \notin SeqToSet(users[u].following) /\ u \notin SeqToSet(users[u].followers)

\* C9: a follow-toggle on the actor's own user record answers 400 and writes
\* nothing, and no user is in the own following or followers.
C9_SelfFollowRejected ==
  /\ []C9_NoSelfEdge
  /\ [][(FollowResponds /\ resp'.targetUserId = FindUserByClerk(resp'.auth)) =>
          /\ resp'.status = 400
          /\ users' = users /\ notifications' = notifications
       ]_vars

\* C10: a follow-toggle call creates the follow notification from actor to
\* target exactly when it is the follow transition (both exist and differ,
\* the actor does not follow the target); the unfollow creates none.
C10_FollowNotifiesOnFollow ==
  [][FollowResponds =>
       LET a == FindUserByClerk(resp'.auth)
           t == resp'.targetUserId
       IN  IF a # 0 /\ t \in DOMAIN users /\ a # t /\ t \notin SeqToSet(users[a].following)
             THEN Created(FollowNotification(a, t))
             ELSE notifications' = notifications
    ]_vars

\* C11: a follow-toggle answers 404 exactly when the actor or the target user
\* does not resolve, and then changes no following, no followers and no
\* notification; when both exist and differ it answers 200 and has toggled
\* the target's membership of the actor's following.
C11_FollowNotFoundOrToggled ==
  [][FollowResponds =>
       LET a == FindUserByClerk(resp'.auth)
           t == resp'.targetUserId
           found == a # 0 /\ t \in DOMAIN users
       IN  /\ resp'.status = 404 <=> ~found
           /\ ~found => users' = users /\ notifications' = notifications
           /\ (found /\ a # t) =>
                /\ resp'.status = 200
                /\ (t \in SeqToSet(users'[a].following)) <=> (t \notin SeqToSet(users[a].following))
    ]_vars

\* C12: served alone, every step of a comment creation leaves the other
\* posts, the existing comments and the existing entries of the post's
\* comments as they are, and when the call answers 201 the new comment C
\* exists with C.post = P and C.user = actor, and P.comments holds C exactly
\* once, as its last element.
C12_CommentCreated ==
  [][\A r \in Reqs : Serving(r, "createComment") =>
       LET P == reqs[r].postId
           C == resp'.comment
       IN  /\ \A q \in DOMAIN posts \ {P} : SamePost(q)
           /\ \A k \in DOMAIN comments : SameComment(k)
           /\ P \in DOMAIN posts =>
                /\ SamePostButComments(P)
                /\ Len(posts'[P].comments) >= Len(posts[P].comments)
                /\ SubSeq(posts'[P].comments, 1, Len(posts[P].comments)) = posts[P].comments
           /\ (Responds("createComment") /\ resp'.status = 201) =>
                /\ C \in DOMAIN comments'
                /\ comments'[C].post = P
                /\ comments'[C].user = FindUserByClerk(resp'.auth)
                /\ comments'[C].user # 0
                /\ P \in DOMAIN posts'
                /\ Count(posts'[P].comments, C) = 1
                /\ posts'[P].comments[Len(posts'[P].comments)] = C
    ]_vars

\* a second comment has been created on a post while another post exists
C12_Witness ==
  /\ resp.op = "createComment" /\ resp.status = 201
  /\ resp.postId \in DOMAIN posts
  /\ Len(posts[resp.postId].comments) = 2
  /\ posts[resp.postId].comments[2] = resp.comment
  /\ Cardinality(DOMAIN posts) = 2

\* C13: served alone, every step of a comment deletion leaves every other
\* comment record, every post but the comment's parent and every other entry
\* of the parent's comments as they are, and when the call answers 200 the
\* comment record C is gone and its parent's comments do not hold C.
C13_CommentDeleted ==
  [][\A r \in Reqs : Serving(r, "deleteComment") =>
       LET C == reqs[r].commentId
           P == IF C \in DOMAIN comments THEN comments[C].post ELSE 0
       IN  /\ \A k \in DOMAIN comments \ {C} : SameComment(k)
           /\ \A q \in DOMAIN posts \ {P} : SamePost(q)
           /\ P \in DOMAIN posts =>
                /\ SamePostButComments(P)
                /\ SelectSeq(posts'[P].comments, LAMBDA k : k # C)
                     = SelectSeq(posts[P].comments, LAMBDA k : k # C)
           /\ (Responds("deleteComment") /\ resp'.status = 200) =>
                /\ C \notin DOMAIN comments'
                /\ P \in DOMAIN posts'
                /\ Count(posts'[P].comments, C) = 0
    ]_vars

\* a comment has been deleted from a post that still holds another comment
C13_Witness ==
  /\ resp.op = "deleteComment" /\ resp.status = 200
  /\ resp.comment \notin DOMAIN comments
  /\ \E k \in DOMAIN comments :
       /\ comments[k].post = resp.cpost
       /\ resp.cpost \in DOMAIN posts
       /\ posts[resp.cpost].comments = <<k>>

\* C14: when a post deletion of an existing post P by its owner answers, it
\* has succeeded: P no longer exists, no comment references P (listing the
\* comments of P returns none), and the comments of other posts are as they
\* were.
C14_PostDeleteCascades ==
  [][Responds("deletePost") =>
       LET a == FindUserByClerk(resp'.auth)
           P == resp'.postId
       IN  (a # 0 /\ P \in DOMAIN posts /\ posts[P].user = a) =>
             /\ resp'.status \in {200, 201}
             /\ P \notin DOMAIN posts'
             /\ GetComments(P) = {}
             /\ \A k \in DOMAIN comments : comments[k].post # P => SameComment(k)
    ]_vars

\* C15: a post deletion by an actor who is not the owner answers 403, one for
\* a missing post or an unsynced actor answers 404, and in both cases no post
\* and no comment is deleted or changed.
C15_PostDeleteRefused ==
  [][Responds("deletePost") =>
       LET a == FindUserByClerk(resp'.auth)
           P == resp'.postId
           missing == a = 0 \/ P \notin DOMAIN posts
       IN  /\ missing => resp'.status = 404
           /\ (~missing /\ posts[P].user # a) => resp'.status = 403
           /\ (missing \/ posts[P].user # a) => posts' = posts /\ comments' = comments
    ]_vars

\* C16: served alone, a comment deletion by an actor who is not the comment's
\* author answers 403, one for a missing comment or an unsynced actor answers
\* 404, and no step of such a call deletes a comment or changes a post's
\* comments.
C16_CommentDeleteRefused ==
  [][\A r \in Reqs : Serving(r, "deleteComment") =>
       LET a == FindUserByClerk(reqs[r].auth)
           C == reqs[r].commentId
           missing == a = 0 \/ C \notin DOMAIN comments
           refused == missing \/ comments[C].user # a
       IN  refused =>
             /\ comments' = comments /\ posts' = posts
             /\ Responds("deleteComment") => resp'.status = (IF missing THEN 404 ELSE 403)
    ]_vars

\* a deletion has been refused to a synced user who is not the author of the
\* comment, which is still on its post
C16_Witness ==
  /\ resp.op = "deleteComment" /\ resp.status = 403
  /\ resp.commentId \in DOMAIN comments
  /\ comments[resp.commentId].user # resp.user /\ resp.user # 0
  /\ Count(posts[comments[resp.commentId].post].comments, resp.commentId) = 1

\* C17: a post is written only by the step of a post creation that answers
\* 201, and a post creation answers 400 with no content and no image, 404 for
\* an actor without a user record, 400 when the upload fails: in these cases
\* the posts are unchanged.
C17_PostCreatedOnlyIfValid ==
  [][/\ posts' # posts => Responds("createPost") /\ resp'.status = 201
     /\ Responds("createPost") =>
          LET empty == resp'.content = "" /\ ~resp'.hasImage
              a == FindUserByClerk(resp'.auth)
          IN  /\ resp'.status \in {201, 400, 404}
              /\ empty => resp'.status = 400
              /\ (~empty /\ a = 0) => resp'.status = 404
              /\ resp'.status # 201 => posts' = posts /\ nextPost' = nextPost
              /\ resp'.status = 201 =>
                   /\ ~empty /\ a # 0
                   /\ DOMAIN posts' = DOMAIN posts \cup {resp'.postId}
                   /\ resp'.postId \notin DOMAIN posts
                   /\ \A q \in DOMAIN posts : SamePost(q)
    ]_vars

\* the upload of a synced actor's image has failed
C17_Witness ==
  /\ resp.op = "createPost" /\ resp.status = 400
  /\ resp.hasImage /\ resp.user # 0
  /\ FindUserByClerk(resp.auth) = resp.user

C19_OneRecordPerIdentity ==
  \A c \in ClerkIds : Cardinality({u \in DOMAIN users : users[u].clerkID = c}) <= 1

\* C19: whatever the interleaving of sync calls for one identity, the
\* identity never has more than one user record, and every sync call answers
\* 200.
C19_ConcurrentSyncSucceeds ==
  /\ []C19_OneRecordPerIdentity
  /\ [][Responds("sync") => resp'.status = 200]_vars

\* C20: a comment creation whose content is missing, empty or whitespace
\* only answers 400 at once: it creates no comment, changes no post and
\* creates no notification.
C20_EmptyCommentRejected ==
  [][(Responds("createComment") /\ resp'.content \in {"", " "}) =>
       /\ resp'.status = 400
       /\ reqs' = reqs
       /\ comments' = comments /\ nextComment' = nextComment
       /\ posts' = posts
       /\ notifications' = notifications
    ]_vars

\* a whitespace-only comment of a synced user on an existing post of another
\* user has been rejected
C20_Witness ==
  /\ resp.op = "createComment" /\ resp.status = 400
  /\ resp.content = " "
  /\ FindUserByClerk(resp.auth) # 0
  /\ resp.postId \in DOMAIN posts
  /\ posts[resp.postId].user # FindUserByClerk(resp.auth)

CommentNotification(a, o, p, k) ==
  [from |-> a, to |-> o, types |-> "comment", post |-> p, comment |-> k]

\* C21: a comment creation that answers 201 for an actor who is not the
\* post's owner has created, in the step that answers, one notification with
\* types = comment, from = actor, to = owner, the post and the new comment;
\* one for the owner creates none; and nothing else creates a notification.
C21_CommentNotifiesOwner ==
  [][/\ notifications' # notifications =>
          Responds("createComment") /\ resp'.status = 201
     /\ (Responds("createComment") /\ resp'.status = 201) =>
          LET a == FindUserByClerk(resp'.auth)
              p == resp'.postId
              o == posts[p].user
          IN  /\ p \in DOMAIN posts /\ a # 0
              /\ resp'.comment \in DOMAIN comments
              /\ IF a # o
                    THEN Created(CommentNotification(a, o, p, resp'.comment))
                    ELSE notifications' = notifications
    ]_vars

\* a comment of a user on another user's post has been created and notified
C21_Witness ==
  /\ resp.op = "createComment" /\ resp.status = 201
  /\ resp.user # resp.owner
  /\ Len(notifications) = 1
  /\ notifications[1] = CommentNotification(resp.user, resp.owner, resp.postId, resp.comment)

\* C22: a cascading delete that answers with an internal error has deleted
\* neither the parent record nor, without the child step, anything else, and
\* the same request sent again right after it is not answered with an
\* internal error again: the retry completes the deletion.
C22_DeleteRetryCompletes ==
  [][/\ (Responds("deletePost") /\ resp'.status = 500) =>
          /\ posts' = posts /\ comments' = comments
          /\ ~(/\ resp.op = "deletePost" /\ resp.status = 500
               /\ resp.auth = resp'.auth /\ resp.postId = resp'.postId)
     /\ (Responds("deleteComment") /\ resp'.status = 500) =>
          comments' = comments
    ]_vars

\* C26: once no request is in flight, every comment record's post is a stored
\* post that lists the comment, and every entry of a post's comments is a
\* stored comment of that post.
C26_RelationAgreesAtRest ==
  (\A r \in Reqs : ~InFlight(r)) =>
    /\ \A k \in DOMAIN comments :
         /\ comments[k].post \in DOMAIN posts
         /\ k \in SeqToSet(posts[comments[k].post].comments)
    /\ \A p \in DOMAIN posts : \A k \in SeqToSet(posts[p].comments) :
         k \in DOMAIN comments /\ comments[k].post = p

\* C27: in every state, between the writes of the handlers too, each entry
\* of a post's comments is the id of a stored comment record.
C27_NoDanglingReference ==
  \A p \in DOMAIN posts : SeqToSet(posts[p].comments) \subseteq DOMAIN comments

\* C28: the list that getComments returns holds exactly the comments of the
\* post asked for, the newest first (comment ids are handed out in order of
\* creation).
C28_CommentsNewestFirst ==
  [][(Responds("getComments") /\ resp'.status = 200) =>
       /\ SeqToSet(resp'.result) =
            {k \in DOMAIN comments : comments[k].post = resp'.postId}
       /\ \A i, j \in DOMAIN resp'.result :
            i < j => resp'.result[i] > resp'.result[j]
    ]_vars

\* C25: a request for a protected operation that carries no verified
\* identity is answered 401 by protectRoute, the only handler that runs for
\* it, in a step that changes no stored record.
C25_UnauthenticatedRejected ==
  [][LET Protected == {"createPost", "likeAPost", "deletePost", "createComment",
                       "deleteComment", "followUser", "sysncUser", "getCurrentUser",
                       "updateUserProfile", "getNotification", "deleteNotification"}
     IN  (resp' # resp /\ resp'.auth = "" /\ resp'.op \in Protected) =>
           /\ resp'.status = 401
           /\ resp'.result = <<"protectRoute">>
           /\ users' = users /\ posts' = posts
           /\ comments' = comments /\ notifications' = notifications
    ]_vars

\* a request to update a profile, sent without identity while a user is
\* stored, has been rejected
C25_Witness ==
  /\ resp.op = "updateUserProfile" /\ resp.auth = "" /\ resp.status = 401
  /\ users # <<>>

\* C23: when a like, delete-post or create-comment mutation on a post of
\* user U succeeds, the keys ["posts"] and ["userPosts", U] are stale after
\* the step, and ["notifications"] is after a notification delete succeeds.
C23_SuccessInvalidatesAffectedKeys ==
  [][(client.status = "pending" /\ client'.status = "success") =>
       /\ client.pending.kind \in {"like", "deletePost", "comment"} =>
            {<<"posts">>, <<"userPosts", client.pending.owner>>} \subseteq client'.stale
       /\ client.pending.kind = "deleteNotification" =>
            <<"notifications">> \in client'.stale
    ]_vars

\* C24: the step in which a mutation fails invalidates no key, sends no
\* request and shows an alert.
C24_FailureSurfaced ==
  [][(client.status = "pending" /\ client'.status = "error") =>
       /\ client'.stale = client.stale
       /\ client'.sent = client.sent
       /\ client'.alert # ""
    ]_vars

\* C29: while the comment text is empty or blank no create-comment mutation
\* starts, and the step that shows the "Empty Comment" alert changes neither
\* the text nor the cache nor the mutation.
C29_EmptyCommentNotSent ==
  [][/\ client.commentText \in {"", " "} =>
          ~(client.pending.kind # "comment" /\ client'.pending.kind = "comment")
     /\ client'.alert = "Empty Comment" =>
          /\ client'.commentText = client.commentText
          /\ client'.stale = client.stale
          /\ client'.pending = client.pending
    ]_vars

\* C30: the last request the client sent is one that the backend routes,
\* and the last handler of its route is the controller of its operation.
C30_ClientRequestsRouted ==
  client.sent # NoCall =>
    LET chain == Dispatch(client.sent.method, client.sent.path)
    IN  chain # <<>> /\ chain[Len(chain)] = client.sent.op

====
